---- MODULE Spec2Model ----
(***************************************************************************)
(* Model of the news-agent monitoring scheduler                            *)
(* (backend/app/services/agent_service.py, news_service.py).               *)
(*                                                                         *)
(* The service runs on one asyncio event loop: code between two awaits     *)
(* that really suspend is one atomic step.  start_agent_monitoring never   *)
(* suspends; stop_agent_monitoring suspends once, in `await tasks`, when   *)
(* the task it cancelled is not finished yet; a monitoring loop suspends   *)
(* in the provider request and in its two sleeps.                          *)
(*                                                                         *)
(* Storage is modelled by the interface the service uses (rows of agents,  *)
(* rows of articles with a unique url); the loop and update_agent share    *)
(* one Session, so the `agent` object a loop holds is the row itself.      *)
(* Rows are added by create_agent and edited by update_agent; an agent id  *)
(* may have no row.  Every scheduler operation works on one agent id and   *)
(* shares nothing between ids but the dicts, so one id is modelled; loops  *)
(* of that id run concurrently whenever start is called twice.             *)
(*                                                                         *)
(* The analysis of one article (analyze_article_with_intelligence with     *)
(* llm_service.py behind it), the keyword scorer and the response parser   *)
(* are specified on their own, called directly: no cycle reaches them.     *)
(* Floats are integers in ten-thousandths.                                 *)
(***************************************************************************)
EXTENDS Integers, FiniteSets, Sequences, TLC

\* ---------------------------------------------------------------- bounds
MaxTasks == 2
MaxArticles == 1
MaxCalls == 2
MaxAnalyses == 1
MaxServices == 2
StartTime == 3
MaxTime == 6

\* ------------------------------------------------------ program constants
DefaultCheckInterval == 300
ErrorBackoff == 60
RateLimitBackoff == 60
MinDescriptionLen == 30
MaxAgeHours == 24
SearchDelay == 1
AnalysisDelay == 2

AgentIds == {1}
TaskIds == 1..MaxTasks
Urls == {"u1", "u2"}

VARIABLES
    running_agents,  \* self.running_agents : agent id -> bool (partial)
    agent_tasks,     \* self.agent_tasks    : agent id -> task (partial)
    tasks,           \* every asyncio task created for agent_monitoring_loop
    calls,           \* stop/update calls suspended in `await tasks`
    db_agents,       \* storage: agent rows (partial function of agent id)
    db_articles,     \* storage: article rows
    ret,             \* what the API call that ended last raised, or "none"
    stop_returned,   \* agents whose last stop returned with no start since
    observed,        \* per url, how many cycles passed it to the dedup check
    result,          \* what the analysis or dispatch call that ended last gave
    db_llm_analyses, \* storage: LLMAnalysis rows, in the order they were added
    llm_wait,        \* the analysis suspended in sleep(60) after an LLM 429
    now,             \* time.time(), in seconds
    limiters,        \* the NewsService and LLMService objects constructed so far
    last_call        \* per provider, when the last request to it was issued

engine_vars == <<result, db_llm_analyses, llm_wait>>

rate_vars == <<now, limiters, last_call>>

vars == <<running_agents, agent_tasks, tasks, calls, db_agents, db_articles,
          ret, stop_returned, observed, result, db_llm_analyses, llm_wait,
          now, limiters, last_call>>

\* ------------------------------------------------------- dict helpers
\* No analysis call has returned yet; no analysis call is suspended.
NoResult == [op |-> "none", exc |-> "none"]

NoCall == [pending |-> FALSE]

DictGet(d, k, default) == IF k \in DOMAIN d THEN d[k] ELSE default

DictSet(d, k, v) == [x \in (DOMAIN d) \cup {k} |-> IF x = k THEN v ELSE d[x]]

DictDel(d, k) == [x \in (DOMAIN d) \ {k} |-> d[x]]

Min(a, b) == IF a <= b THEN a ELSE b

NoRet == "none"

Returned(op, a) == "none"

Raised(op, a, exc) == exc

\* ------------------------------------------------------- rate limiting
\* The two external providers: NewsAPI (search) and the model API (analysis).
Providers == {"search", "analysis"}

\* self.rate_limit_delay of NewsService.__init__ and of LLMService.__init__.
Delay(p) == IF p = "search" THEN SearchDelay ELSE AnalysisDelay

\* ------------------------------------------------------------- storage
\* Python's None, where the model has integers.
None == -1

\* The rows create_agent and update_agent are given here: the defaults, an
\* edit of keywords and interval, and a deactivation.
AgentRows == {[keywords |-> "ai", check_interval |-> DefaultCheckInterval, is_active |-> TRUE],
              [keywords |-> "ai,chip", check_interval |-> 2 * DefaultCheckInterval, is_active |-> TRUE],
              [keywords |-> "chip", check_interval |-> 2 * DefaultCheckInterval, is_active |-> FALSE]}

\* The stored row: the columns the API sets and last_checked, a nullable
\* column with no default that no create or update data carries.
Row(data, last_checked) ==
    [keywords |-> data.keywords, check_interval |-> data.check_interval,
     is_active |-> data.is_active, last_checked |-> last_checked]

DefaultRow == Row([keywords |-> "ai", check_interval |-> DefaultCheckInterval,
                   is_active |-> TRUE], None)

\* self.db.query(Agent).filter(Agent.id == agent_id).first(): the row or None.
QueryAgent(a) == IF a \in DOMAIN db_agents THEN {db_agents[a]} ELSE {}

\* ------------------------------------------------------------- tasks
\* asyncio.create_task(self.agent_monitoring_loop(agent_id)): the coroutine has
\* not run yet.  pc is the await the task is suspended in:
\*   "new" (created, never run), "fetching" (session.get of the provider),
\*   "rate_wait" (sleep(60) after a 429), "sleeping" (sleep(check_interval)),
\*   "backoff" (sleep(60) in the except handler), "done".
\* exit is how the coroutine ended: "flag" (while condition false, cleanup ran),
\* "notfound" (return at the missing agent), "cancelled" (CancelledError).
\* err records that the sleep the task is in follows an exception of its cycle.
NewTask(a) == [agent |-> a, pc |-> "new", cancel |-> FALSE, dur |-> 0, kw |-> "",
               exit |-> "none", err |-> FALSE]

NextTaskId == Cardinality(DOMAIN tasks) + 1

CallKeys == {"stop", "update"} \X AgentIds \X TaskIds

PendingUpdates == {k \in CallKeys : k[1] = "update" /\ calls[k] > 0}

PendingCount(S) == LET RECURSIVE Sum(_)
                       Sum(T) == IF T = {} THEN 0
                                 ELSE LET k == CHOOSE x \in T : TRUE
                                      IN calls[k] + Sum(T \ {k})
                   IN Sum(S)

\* Room for one more task, counting the start every suspended update will make.
TaskRoom == Cardinality(DOMAIN tasks) + PendingCount(PendingUpdates) < MaxTasks

ActiveTasks(a) == {t \in DOMAIN tasks : tasks[t].agent = a /\ tasks[t].pc # "done"}

\* get_agent_status: "is_monitoring": self.running_agents.get(agent_id, False)
is_monitoring(a) == DictGet(running_agents, a, FALSE)

\* ------------------------------------------------- start_agent_monitoring
\* `agent_id in self.running_agents or self.running_agents[agent_id]`: the
\* subscript is evaluated exactly when the id is absent, and raises KeyError.
StartRaises(ra, a) == a \notin DOMAIN ra

\* The body of the if: self.running_agents[agent_id] = True.  The if has no
\* return and no else: create_task follows it whenever it did not raise.
StartMark(ra, a) == DictSet(ra, a, TRUE)

start_agent_monitoring(a) ==
    /\ UNCHANGED <<engine_vars, rate_vars>>
    /\ TaskRoom
    /\ stop_returned' = stop_returned \ {a}
    /\ IF StartRaises(running_agents, a)
       THEN /\ ret' = Raised("start", a, "KeyError")
            /\ UNCHANGED <<running_agents, agent_tasks, tasks>>
       ELSE /\ running_agents' = StartMark(running_agents, a)
            /\ tasks' = DictSet(tasks, NextTaskId, NewTask(a))
            /\ agent_tasks' = DictSet(agent_tasks, a, NextTaskId)
            /\ ret' = Returned("start", a)
    /\ UNCHANGED <<calls, db_agents, db_articles, observed>>

\* --------------------------------------------------- stop_agent_monitoring
\* self.running_agents[agent_id] = False
StopMark(ra, a) == DictSet(ra, a, FALSE)

\* tasks.cancel() on a task that is not done: CancelledError is thrown into the
\* coroutine the next time the event loop runs it.
RequestCancel(ts, t) == [ts EXCEPT ![t].cancel = TRUE]

\* `await tasks` suspends the caller exactly when the task is not done.
AwaitSuspends(t) == tasks[t].pc # "done"

stop_agent_monitoring(a) ==
    /\ UNCHANGED <<engine_vars, rate_vars>>
    /\ running_agents' = StopMark(running_agents, a)
    /\ IF a \notin DOMAIN agent_tasks
       THEN /\ ret' = Returned("stop", a)
            /\ stop_returned' = stop_returned \cup {a}
            /\ UNCHANGED <<agent_tasks, tasks, calls>>
       ELSE LET t == agent_tasks[a] IN
            IF AwaitSuspends(t)
            THEN /\ PendingCount(CallKeys) < MaxCalls
                 /\ tasks' = RequestCancel(tasks, t)
                 /\ calls' = [calls EXCEPT ![<<"stop", a, t>>] = @ + 1]
                 /\ UNCHANGED <<agent_tasks, ret, stop_returned>>
            ELSE /\ agent_tasks' = DictDel(agent_tasks, a)
                 /\ ret' = Returned("stop", a)
                 /\ stop_returned' = stop_returned \cup {a}
                 /\ UNCHANGED <<tasks, calls>>
    /\ UNCHANGED <<db_agents, db_articles, observed>>

\* The caller of `await tasks` runs again once the task is done; CancelledError
\* is swallowed, then `del self.agent_tasks[agent_id]` with no membership test.
\* For op = "update" the caller is update_agent, which then awaits start.
resume_after_await(op, a, t) ==
    /\ UNCHANGED <<engine_vars, rate_vars>>
    /\ calls[<<op, a, t>>] > 0
    /\ tasks[t].pc = "done"
    /\ calls' = [calls EXCEPT ![<<op, a, t>>] = @ - 1]
    /\ IF a \notin DOMAIN agent_tasks
       THEN /\ ret' = Raised(op, a, "KeyError")
            /\ UNCHANGED <<running_agents, agent_tasks, tasks, stop_returned>>
       ELSE IF op = "stop"
            THEN /\ agent_tasks' = DictDel(agent_tasks, a)
                 /\ ret' = Returned("stop", a)
                 /\ stop_returned' = stop_returned \cup {a}
                 /\ UNCHANGED <<running_agents, tasks>>
            ELSE /\ stop_returned' = stop_returned \ {a}
                 /\ IF StartRaises(running_agents, a)
                    THEN /\ agent_tasks' = DictDel(agent_tasks, a)
                         /\ ret' = Raised("update", a, "KeyError")
                         /\ UNCHANGED <<running_agents, tasks>>
                    ELSE /\ running_agents' = StartMark(running_agents, a)
                         /\ tasks' = DictSet(tasks, NextTaskId, NewTask(a))
                         /\ agent_tasks' = DictSet(DictDel(agent_tasks, a), a, NextTaskId)
                         /\ ret' = Returned("update", a)
    /\ UNCHANGED <<db_agents, db_articles, observed>>

\* The task a cancel was requested for runs next: CancelledError is raised at
\* its await.  It is a BaseException: `except Exception` does not catch it, the
\* lines after the while loop do not run.
task_cancelled(t) ==
    /\ UNCHANGED <<engine_vars, rate_vars>>
    /\ t \in DOMAIN tasks
    /\ tasks[t].pc # "done"
    /\ tasks[t].cancel
    /\ tasks' = [tasks EXCEPT ![t].pc = "done", ![t].exit = "cancelled",
                              ![t].dur = 0, ![t].kw = "", ![t].err = FALSE]
    /\ UNCHANGED <<running_agents, agent_tasks, calls, db_agents, db_articles,
                   ret, stop_returned, observed>>

\* ------------------------------------------------------------ update_agent
\* The row is found, every key of update_data is set, the session commits;
\* then `if agent.is_active:` stop and start.  An update to is_active = False
\* returns without touching the scheduler.
update_agent(a, data) ==
    /\ UNCHANGED <<engine_vars, rate_vars>>
    /\ TaskRoom
    /\ UNCHANGED <<db_articles, observed>>
    /\ IF QueryAgent(a) = {}
       THEN /\ ret' = Raised("update", a, "ValueError")
            /\ UNCHANGED <<running_agents, agent_tasks, tasks, calls, db_agents,
                           stop_returned>>
       ELSE /\ db_agents' = [db_agents EXCEPT ![a] = Row(data, @.last_checked)]
            /\ IF ~data.is_active
               THEN /\ ret' = Returned("update", a)
                    /\ UNCHANGED <<running_agents, agent_tasks, tasks, calls,
                                   stop_returned>>
               ELSE IF a \in DOMAIN agent_tasks /\ AwaitSuspends(agent_tasks[a])
                    THEN /\ PendingCount(CallKeys) < MaxCalls
                         /\ running_agents' = StopMark(running_agents, a)
                         /\ tasks' = RequestCancel(tasks, agent_tasks[a])
                         /\ calls' = [calls EXCEPT ![<<"update", a, agent_tasks[a]>>] = @ + 1]
                         /\ UNCHANGED <<agent_tasks, ret, stop_returned>>
                    ELSE \* stop returns without suspending, start follows at once
                         /\ running_agents' = StartMark(StopMark(running_agents, a), a)
                         /\ tasks' = DictSet(tasks, NextTaskId, NewTask(a))
                         /\ agent_tasks' = DictSet(agent_tasks, a, NextTaskId)
                         /\ ret' = Returned("update", a)
                         /\ stop_returned' = stop_returned \ {a}
                         /\ UNCHANGED calls

\* ------------------------------------------------------------ create_agent
\* The row is added and committed; the constructor passes no is_active, the
\* value the refreshed row carries is the storage's.  `if bool(agent.is_active)`
\* then awaits start for the new id.
create_agent(a, data) ==
    /\ UNCHANGED <<engine_vars, rate_vars>>
    /\ TaskRoom
    /\ a \notin DOMAIN db_agents
    /\ db_agents' = DictSet(db_agents, a, Row(data, None))
    /\ UNCHANGED <<calls, db_articles, observed>>
    /\ IF ~data.is_active
       THEN /\ ret' = Returned("create", a)
            /\ UNCHANGED <<running_agents, agent_tasks, tasks, stop_returned>>
       ELSE /\ stop_returned' = stop_returned \ {a}
            /\ IF StartRaises(running_agents, a)
               THEN /\ ret' = Raised("create", a, "KeyError")
                    /\ UNCHANGED <<running_agents, agent_tasks, tasks>>
               ELSE /\ running_agents' = StartMark(running_agents, a)
                    /\ tasks' = DictSet(tasks, NextTaskId, NewTask(a))
                    /\ agent_tasks' = DictSet(agent_tasks, a, NextTaskId)
                    /\ ret' = Returned("create", a)

\* ------------------------------------------------- provider responses
\* A raw article of the provider: description is its length, -1 for the JSON
\* null NewsAPI sends, -2 for a missing key.  publishedAt is null or a string:
\* kind is "absent" (null, no key, ""), "garbage" (fromisoformat raises
\* ValueError), "naive" (an ISO time with no zone) or "aware" (an ISO time with
\* a zone or Z); age is the time since that instant when the filter runs, in
\* hundredths of an hour.
Absent == -2

Aware(age) == [kind |-> "aware", age |-> age]

Articles == {x \in [url : Urls,
                      description : {None, MinDescriptionLen - 1, MinDescriptionLen},
                      publishedAt : {Aware(MaxAgeHours * 100), Aware(MaxAgeHours * 100 + 1)}] :
                 x.publishedAt.age <= MaxAgeHours * 100 \/ x.description = MinDescriptionLen}

\* ------------------------------------------------------ keyword scoring
\* A float of the analysis code, in ten-thousandths: One is 1.0, 8500 is 0.85.
One == 10000

TitleWeight == 10000
DescriptionWeight == 7000
ContentWeight == 3000
ActThreshold == 5000
FallbackRelevant == 3000
FallbackCap == 8000

\* The words an article field or a keyword can be made of.  A field of an
\* article (title, description, content) after `(x or "").lower()` is the set
\* of words that are substrings of it: a JSON null gives {}.
Words == {"ai", "chip", "gpu"}

\* str.strip() and str.lower() on the keyword strings used here.
Strip(k) == IF k = " chip" THEN "chip" ELSE k

Lower(k) == IF k = "AI" THEN "ai" ELSE IF k = "Chip" THEN "chip" ELSE k

\* `keyword_lower in title`: the empty string is a substring of every string.
Contains(field, k) == k = "" \/ k \in field

\* [k.strip() for k in agent.keywords.split(",")]: "".split(",") is [""],
\* never the empty list.
SplitKeywords(s) ==
    CASE s = "ai" -> <<"ai">>
      [] s = "chip" -> <<"chip">>
      [] s = "ai,chip" -> <<"ai", "chip">>
      [] s = "AI, Chip" -> <<"AI", "Chip">>
      [] s = "" -> <<"">>

\* The text behind a url: "u1" has "ai" in its title and "chip" in its
\* description, "u2" has "gpu" in its content only.
ArticleText(url) ==
    IF url = "u1" THEN [title |-> {"ai"}, description |-> {"chip"}, content |-> {}]
    ELSE [title |-> {}, description |-> {}, content |-> {"gpu"}]

\* The if / elif / elif of the for loop: a keyword is appended to one list, the
\* first of title, description, content that contains keyword.strip().lower().
TitleMatches(article, keywords) ==
    {i \in 1..Len(keywords) : Contains(article.title, Lower(Strip(keywords[i])))}

DescriptionMatches(article, keywords) ==
    {i \in 1..Len(keywords) : /\ i \notin TitleMatches(article, keywords)
                              /\ Contains(article.description, Lower(Strip(keywords[i])))}

ContentMatches(article, keywords) ==
    {i \in 1..Len(keywords) : /\ i \notin TitleMatches(article, keywords)
                              /\ i \notin DescriptionMatches(article, keywords)
                              /\ Contains(article.content, Lower(Strip(keywords[i])))}

\* title_matches * 1 + description_matches * 0.7 + content_matches * 0.3
WeightedScore(article, keywords) ==
    Cardinality(TitleMatches(article, keywords)) * TitleWeight
    + Cardinality(DescriptionMatches(article, keywords)) * DescriptionWeight
    + Cardinality(ContentMatches(article, keywords)) * ContentWeight

\* round(num / den, 2): the nearest hundredth of num / den.  No quotient of a
\* weighted score by up to three keywords lies half way between two hundredths.
Round2(num, den) == ((2 * num + 100 * den) \div (200 * den)) * 100

\* analyze_keywords_match(article, keywords): `weighted_score / len(keywords)`
\* is evaluated whatever `if not keywords` did before it, and raises
\* ZeroDivisionError for the empty list.  keys are the keys of the dict returned.
analyze_keywords_match(article, keywords) ==
    IF Len(keywords) = 0
    THEN [exc |-> "ZeroDivisionError", matched_score |-> 0, keys |-> {}]
    ELSE [exc |-> "none",
          matched_score |-> IF WeightedScore(article, keywords) >= Len(keywords) * One
                            THEN One
                            ELSE Round2(WeightedScore(article, keywords), Len(keywords)),
          keys |-> {"matched_keywords", "matched_score", "total_matched",
                    "matched_locations"}]

ArticleLists == UNION {[1..n -> Articles] : n \in 0..MaxArticles}

Responses == [status : {200}, articles : ArticleLists]
             \cup [status : {401, 429}, articles : {<<>>}]

\* One turn of the for loop of filter_quality_articles.  title is "absent"
\* (no key, null or ""), or the string; url likewise.  The branches in the
\* order of the code: a falsy title or url; `title == ['removed']`, a string
\* compared with a list, which is never equal; `len(article.get("description",
\* ""))`, where the default serves a missing key only and len(None) raises
\* TypeError; the last test, `not description`, is reached by no article.
QualityOutcome(title, url, description) ==
    IF title = "absent" \/ url = "absent" THEN "dropped"
    ELSE IF FALSE THEN "dropped"
    ELSE IF description = None THEN "TypeError"
    ELSE IF (IF description = Absent THEN 0 ELSE description) < MinDescriptionLen
         THEN "dropped"
    ELSE IF description = 0 THEN "dropped"
    ELSE "kept"

\* The articles of a cycle all carry a title.
CycleOutcome(article) == QualityOutcome("Chip news", article.url, article.description)

QualityRaises(articles) == \E i \in 1..Len(articles) : CycleOutcome(articles[i]) = "TypeError"

QualityKeeps(article) == CycleOutcome(article) = "kept"

filter_quality_articles(articles) == SelectSeq(articles, QualityKeeps)

\* A recency test that rejects the article published exactly 24 h ago.
AgeWithinStrict(age) == age < MaxAgeHours * 100

\* datetime.now(timezone.utc) - article_time <= timedelta(hours=max_age_hours)
AgeWithin(age) == age <= MaxAgeHours * 100

\* is_article_recent: a falsy publishedAt returns False; ValueError (no ISO
\* time) and TypeError (aware minus naive) are caught and return False.
is_article_recent(article) ==
    IF article.publishedAt.kind = "absent" THEN FALSE
    ELSE IF article.publishedAt.kind = "garbage" THEN FALSE
    ELSE IF article.publishedAt.kind = "naive" THEN FALSE
    ELSE AgeWithin(article.publishedAt.age)

\* The call at the head of the for body is not awaited: its value is the
\* coroutine object of is_article_already_processed, not the bool it computes.
is_article_already_processed(url) == [type |-> "coroutine", url |-> url]

\* bool(x) as `if x:` takes it: a coroutine object is true.
Truthy(x) == IF x.type = "bool" THEN x.val ELSE TRUE

\* An analysis result as analyze_article_with_intelligence builds it.
Analyses == [should_take_action : BOOLEAN,
             confidence : {0, One \div 2, 57 * (One \div 100), 85 * (One \div 100), One},
             method : {"llm_analysis", "fall_back analysis"},
             suggested_action : {"save_important", "notify_user", "track_trend", "ignore"}]

NoAnalysis == [should_take_action |-> FALSE, confidence |-> 0, method |-> "none",
               suggested_action |-> "none"]

\* analyze_article_with_intelligence after its `if agent.llm_enabled:` block:
\* the keyword scoring, act above one half, save_important exactly when
\* acting.  The reasoning string reads keyword_analysis['total_matches'], a
\* key the scoring does not return ('total_matched'): building the result
\* raises KeyError.  [exc, analysis].
KeywordAnalysis(article, keywords) ==
    LET keyword_analysis == analyze_keywords_match(article, keywords)
        should_act == keyword_analysis.matched_score > ActThreshold
    IN
    IF keyword_analysis.exc # "none"
    THEN [exc |-> keyword_analysis.exc, analysis |-> NoAnalysis]
    ELSE IF "total_matches" \notin keyword_analysis.keys
         THEN [exc |-> "KeyError", analysis |-> NoAnalysis]
         ELSE [exc |-> "none",
               analysis |-> [should_take_action |-> should_act,
                             confidence |-> keyword_analysis.matched_score,
                             method |-> "fall_back analysis",
                             suggested_action |-> IF should_act THEN "save_important"
                                                                ELSE "ignore"]]

\* dict.get(key): the value, or None for a key the dict does not have.
AnalysisGet(analysis, key) == IF key \in DOMAIN analysis THEN analysis[key] ELSE "None"

\* The key execute_intelligent_action looks up.
ActionKey == "suggested_action, save_important"

\* save_article: add and commit; url is unique (models/article.py), so a
\* second row with a stored url makes commit raise IntegrityError, which
\* nothing in save_article catches.
SaveConflicts(db, url) == \E r \in db : r.url = url

\* The confidences of two decimals whose product with 100 is, in binary floating
\* point, just below the integer: 0.29 * 100 = 28.999999999999996,
\* 0.57 * 100 = 56.99999999999999, 0.58 * 100 = 57.99999999999999.
FloatBelow == {29 * (One \div 100), 57 * (One \div 100), 58 * (One \div 100)}

\* int(confidence * 100): the float product, truncated.
IntTimes100(confidence) ==
    IF confidence \in FloatBelow THEN (confidence * 100) \div One - 1
    ELSE (confidence * 100) \div One

\* The row save_article builds: relevance_score = int(confidence * 100).
ArticleRow(a, article, analysis) ==
    [url |-> article.url, agent_id |-> a,
     relevance_score |-> IntTimes100(analysis.confidence),
     analysis_method |-> analysis.method]

\* mark_as_important: min(relevance_score + 20, 100).
mark_as_important(row) == [row EXCEPT !.relevance_score = Min(@ + 20, 100)]

\* The if / elif chain of execute_intelligent_action: the handler it calls for
\* the action looked up, "none" when no branch matches.
Handler(action) ==
    IF action \in {"notify_user", "track_trend", "save_important"} THEN action
    ELSE "none"

\* execute_intelligent_action on the article rows db: save_article, then the
\* handler of the action looked up.  [raised, db, handler].
ExecuteAction(db, a, article, analysis) ==
    IF SaveConflicts(db, article.url)
    THEN [raised |-> TRUE, db |-> db, handler |-> "none"]
    ELSE LET row == ArticleRow(a, article, analysis)
             action == AnalysisGet(analysis, ActionKey)
         IN [raised |-> FALSE,
             db |-> db \cup {IF Handler(action) = "save_important"
                             THEN mark_as_important(row) ELSE row},
             handler |-> Handler(action)]

\* keywords = [k.strip() for k in agent.keywords.split(",")] at the head of
\* the cycle, from the row queried in this iteration.
CycleKeywords(a) == db_agents[a].keywords

\* The for loop of execute_monitoring_cycle over recent_articles, from index i:
\* [raised, db, analyzed] where raised tells whether an exception left the
\* loop and analyzed is the urls handed to analyze_article_with_intelligence.
\* The agent rows of the scheduler carry no llm_enabled: the analysis of a
\* cycle is the keyword one.
RECURSIVE ProcessArticles(_, _, _, _, _)
ProcessArticles(a, recent_articles, i, db, analyzed) ==
    IF i > Len(recent_articles)
    THEN [raised |-> FALSE, db |-> db, analyzed |-> analyzed]
    ELSE LET article == recent_articles[i]
             decided == KeywordAnalysis(ArticleText(article.url),
                                        SplitKeywords(CycleKeywords(a)))
             analysis_result == decided.analysis
             acted == ExecuteAction(db, a, article, analysis_result)
             passed == analyzed \cup {article.url}
         IN
         IF Truthy(is_article_already_processed(article.url))
         THEN ProcessArticles(a, recent_articles, i + 1, db, analyzed)   \* continue
         ELSE IF decided.exc # "none"
              THEN [raised |-> TRUE, db |-> db, analyzed |-> passed]
              ELSE IF ~analysis_result.should_take_action
                   THEN ProcessArticles(a, recent_articles, i + 1, db, passed)
                   ELSE IF acted.raised
                        THEN [raised |-> TRUE, db |-> db, analyzed |-> passed]
                        ELSE ProcessArticles(a, recent_articles, i + 1, acted.db, passed)

\* What fetch_everything_news returns for a response that is not a 429:
\* the articles of a 200, [] for everything else (the 401 it raises is caught
\* by its own `except Exception`).
FetchedArticles(resp) == IF resp.status = 200 THEN resp.articles ELSE <<>>

RecentArticles(articles) == SelectSeq(filter_quality_articles(articles), is_article_recent)

\* The urls a cycle hands to the dedup check.
ObservedUrls(articles) ==
    IF QualityRaises(articles) THEN {}
    ELSE {RecentArticles(articles)[i].url : i \in 1..Len(RecentArticles(articles))}

\* execute_monitoring_cycle once the provider answered.
execute_monitoring_cycle(a, articles) ==
    IF QualityRaises(articles)
    THEN [raised |-> TRUE, db |-> db_articles, analyzed |-> {}]
    ELSE ProcessArticles(a, RecentArticles(articles), 1, db_articles, {})

\* --------------------------------------------------- agent_monitoring_loop
\* A loop that sleeps the column default instead of the stored interval.
SleepIntervalStale(a) == DefaultCheckInterval

\* `await asyncio.sleep(int(agent.check_interval))`: agent is the session's row
\* object, read when the sleep starts.
SleepInterval(a) == db_agents[a].check_interval

\* An except handler that sleeps the agent's interval instead of the backoff.
OnCycleErrorSleepsInterval(task) ==
    [task EXCEPT !.pc = "sleeping", !.kw = "",
                 !.dur = IF task.agent \in DOMAIN db_agents
                         THEN db_agents[task.agent].check_interval
                         ELSE DefaultCheckInterval]

\* except Exception: print, then `await asyncio.sleep(60)`; the while goes on.
OnCycleError(task) == [task EXCEPT !.pc = "backoff", !.dur = ErrorBackoff, !.kw = ""]

\* The while condition: self.running_agents.get(agent_id, False).
LoopCondition(a) == DictGet(running_agents, a, FALSE)

\* The task runs for the first time, or one of its two sleeps is over: the
\* while condition, the query of the agent, and the cycle up to its request.
loop_activate(t, storage_ok) ==
    /\ UNCHANGED <<engine_vars, rate_vars>>
    /\ t \in DOMAIN tasks
    /\ tasks[t].pc \in {"new", "sleeping", "backoff"}
    /\ ~tasks[t].cancel
    /\ LET a == tasks[t].agent
           woke == [tasks[t] EXCEPT !.dur = 0, !.err = FALSE]
       IN
       IF ~LoopCondition(a)
       THEN \* cleanup after the while loop
            /\ storage_ok
            /\ tasks' = [tasks EXCEPT ![t] = [woke EXCEPT !.pc = "done", !.exit = "flag"]]
            /\ running_agents' = DictDel(running_agents, a)
            /\ agent_tasks' = DictDel(agent_tasks, a)
       ELSE /\ UNCHANGED <<running_agents, agent_tasks>>
            /\ IF ~storage_ok
               THEN tasks' = [tasks EXCEPT ![t] = [OnCycleError(woke) EXCEPT !.err = TRUE]]
               ELSE IF QueryAgent(a) = {}
                    THEN \* `return`: the lines after the while are skipped
                         tasks' = [tasks EXCEPT ![t] = [woke EXCEPT !.pc = "done",
                                                                     !.exit = "notfound"]]
                    ELSE tasks' = [tasks EXCEPT ![t] = [woke EXCEPT !.pc = "fetching",
                                                                     !.kw = CycleKeywords(a)]]
    /\ UNCHANGED <<calls, db_agents, db_articles, ret, stop_returned, observed>>

\* The provider answers the request of fetch_everything_news.  A 429 sleeps 60 s
\* inside fetch and asks again; anything else ends the fetch, the rest of the
\* cycle has no await that suspends, and the loop goes to sleep.
fetch_return(t, resp) ==
    /\ UNCHANGED <<engine_vars, rate_vars>>
    /\ t \in DOMAIN tasks
    /\ tasks[t].pc = "fetching"
    /\ ~tasks[t].cancel
    /\ UNCHANGED <<running_agents, agent_tasks, calls, db_agents, ret, stop_returned>>
    /\ LET a == tasks[t].agent IN
       IF resp.status = 429
       THEN /\ tasks' = [tasks EXCEPT ![t].pc = "rate_wait", ![t].dur = RateLimitBackoff]
            /\ UNCHANGED <<db_articles, observed>>
       ELSE LET articles == FetchedArticles(resp)
                cycle == execute_monitoring_cycle(a, articles)
            IN
            /\ db_articles' = cycle.db
            /\ observed' = [u \in Urls |-> IF u \in ObservedUrls(articles)
                                           THEN Min(observed[u] + 1, 2) ELSE observed[u]]
            /\ IF cycle.raised
               THEN tasks' = [tasks EXCEPT ![t] = [OnCycleError(@) EXCEPT !.err = TRUE]]
               ELSE tasks' = [tasks EXCEPT ![t].pc = "sleeping", ![t].kw = "",
                                           ![t].dur = SleepInterval(a)]

\* The sleep after a 429 is over: fetch_everything_news calls itself.
rate_wait_done(t) ==
    /\ UNCHANGED <<engine_vars, rate_vars>>
    /\ t \in DOMAIN tasks
    /\ tasks[t].pc = "rate_wait"
    /\ ~tasks[t].cancel
    /\ tasks' = [tasks EXCEPT ![t].pc = "fetching", ![t].dur = 0]
    /\ UNCHANGED <<running_agents, agent_tasks, calls, db_agents, db_articles, ret,
                   stop_returned, observed>>

\* ------------------------------------------------------------ specification
Init ==
    /\ running_agents = <<>>
    /\ agent_tasks = <<>>
    /\ tasks = <<>>
    /\ calls = [k \in CallKeys |-> 0]
    /\ db_agents \in {[a \in S |-> DefaultRow] : S \in SUBSET AgentIds}
    /\ db_articles = {}
    /\ ret = NoRet
    /\ stop_returned = {}
    /\ observed = [u \in Urls |-> 0]
    /\ result = NoResult
    /\ db_llm_analyses = <<>>
    /\ llm_wait = NoCall
    /\ now = StartTime
    /\ limiters = <<>>
    /\ last_call = [p \in Providers |-> None]

Next ==
    \/ \E a \in AgentIds : start_agent_monitoring(a)
    \/ \E a \in AgentIds : stop_agent_monitoring(a)
    \/ \E k \in CallKeys : resume_after_await(k[1], k[2], k[3])
    \/ \E a \in AgentIds, data \in AgentRows : update_agent(a, data)
    \/ \E a \in AgentIds, data \in AgentRows : create_agent(a, data)
    \/ \E t \in TaskIds : task_cancelled(t)
    \/ \E t \in TaskIds, ok \in BOOLEAN : loop_activate(t, ok)
    \/ \E t \in TaskIds, resp \in Responses : fetch_return(t, resp)
    \/ \E t \in TaskIds : rate_wait_done(t)

Spec == Init /\ [][Next]_vars

\* The event loop runs every task that is ready: a request gets its answer
\* (aiohttp's total timeout is 30 s), a sleep ends, a cancelled task is resumed.
TaskFairness ==
    \A t \in TaskIds : /\ WF_vars(\E resp \in Responses : fetch_return(t, resp))
                       /\ WF_vars(rate_wait_done(t))
                       /\ WF_vars(task_cancelled(t))

SpecFair == Spec /\ TaskFairness

\* ------------------------------------------------ execute_intelligent_action
\* execute_intelligent_action(agent, article, analysis) called for a stored
\* agent; the IntegrityError of a conflicting save reaches the caller.
execute_intelligent_action(a, article, analysis) ==
    /\ a \in DOMAIN db_agents
    /\ UNCHANGED <<rate_vars, running_agents, agent_tasks, tasks, calls, db_agents,
                   stop_returned, observed, db_llm_analyses, llm_wait>>
    /\ LET acted == ExecuteAction(db_articles, a, article, analysis) IN
       /\ db_articles' = acted.db
       /\ ret' = IF acted.raised THEN Raised("execute", a, "IntegrityError")
                                 ELSE Returned("execute", a)
       /\ result' = [op |-> "execute",
                     exc |-> IF acted.raised THEN "IntegrityError" ELSE "none",
                     handler |-> acted.handler]

NextStore == \E a \in AgentIds, article \in Articles, analysis \in Analyses :
                 execute_intelligent_action(a, article, analysis)

\* The action dispatcher and the article store alone, called directly.
SpecStore == Init /\ [][NextStore]_vars

\* -------------------------------------------------------------- llm_service
\* The text of a 200 response of the model API: a JSON object with the four
\* required fields ("json"), one without confidence_score ("missing"), or
\* text json.loads rejects ("text").  confidence_score is the number sent:
\* 85, 1.4, -0.2, 0.5 and 0.85.
ProviderConfidences == {85 * One, 14000, -2000, One \div 2, 8500}

ProviderActions == {"save_important", "notify_user", "track_trend", "ignore", "archive"}

NoBody == [kind |-> "none"]

LLMBodies ==
    {[kind |-> "json", is_relevant |-> r, confidence_score |-> c,
      suggested_action |-> "save_important"] : r \in BOOLEAN, c \in ProviderConfidences}
    \cup {[kind |-> "json", is_relevant |-> TRUE, confidence_score |-> 8500,
           suggested_action |-> x] : x \in ProviderActions}
    \cup {[kind |-> "missing"], [kind |-> "text"]}

\* What session.post gives: status 0 stands for aiohttp.ClientError (network
\* error, timeout).
LLMOutcomes == [status : {200}, body : LLMBodies]
               \cup [status : {0, 401, 429, 500}, body : {NoBody}]

valid_actions == {"save_important", "notify_user", "ignore"}

\* if confidence > 1: confidence = confidence / 100; then max(0, min(1, ...)).
NormalizeConfidence(confidence) ==
    LET scaled == IF confidence > One THEN confidence \div 100 ELSE confidence
    IN IF scaled > One THEN One ELSE IF scaled < 0 THEN 0 ELSE scaled

\* The dict the except branch of _parse_llm_response returns.
ParseDefault == [is_relevant |-> FALSE, confidence_score |-> 0,
                 suggested_action |-> "ignore"]

\* _parse_llm_response: JSONDecodeError and the ValueError of a missing field
\* are caught inside, the default dict is returned.
ParseLLMResponse(body) ==
    IF body.kind # "json" THEN ParseDefault
    ELSE [is_relevant |-> body.is_relevant,
          confidence_score |-> NormalizeConfidence(body.confidence_score),
          suggested_action |-> IF body.suggested_action \in valid_actions
                               THEN body.suggested_action ELSE "ignore"]

\* _fallback_keyword_analysis of llm_service: the keywords found in title or
\* description over the number of keywords, relevant above 0.3, confidence
\* capped at 0.8.
FallbackMatched(article, keywords) ==
    {i \in 1..Len(keywords) : \/ Contains(article.title, Lower(keywords[i]))
                              \/ Contains(article.description, Lower(keywords[i]))}

FallbackKeywordAnalysis(article, keywords) ==
    LET n == Len(keywords)
        m == Cardinality(FallbackMatched(article, keywords))
        relevance_score == IF n = 0 THEN 0 ELSE (m * One) \div n
        is_relevant == n # 0 /\ m * One > FallbackRelevant * n
    IN [is_relevant |-> is_relevant,
        confidence_score |-> Min(relevance_score, FallbackCap),
        suggested_action |-> IF is_relevant THEN "save_important" ELSE "ignore"]

\* analyze_article_relevance once _call_llm_api is over (outcome is not a 429):
\* every exception of the call is caught here and answered with the keyword
\* analysis of llm_service.
analyze_article_relevance(article, keywords, outcome) ==
    IF outcome.status = 200 THEN ParseLLMResponse(outcome.body)
    ELSE FallbackKeywordAnalysis(article, keywords)

\* ------------------------------------------- analyze_article_with_intelligence
\* The agent objects handed to the analysis.
EngineAgents == [id : AgentIds, keywords : {"ai,chip", "AI, Chip", ""},
                 llm_enabled : BOOLEAN, min_confidence : {One \div 2, 8500}]

EngineArticles == {[url |-> u] : u \in Urls}

\* An act rule that asks for more than the threshold.
ShouldActStrict(llm_analysis, min_confidence) ==
    llm_analysis.is_relevant /\ llm_analysis.confidence_score > min_confidence

\* llm_analysis['is_relevant'] and llm_analysis['confidence_score'] >= agent.min_confidence
ShouldAct(llm_analysis, min_confidence) ==
    llm_analysis.is_relevant /\ llm_analysis.confidence_score >= min_confidence

\* The row save_llm_analysis adds.
LLMAnalysisRow(agent, llm_analysis) ==
    [agent_id |-> agent.id, confidence_score |-> llm_analysis.confidence_score,
     suggested_action |-> llm_analysis.suggested_action]

\* The dict the `if agent.llm_enabled:` block returns.
LLMDecision(agent, llm_analysis) ==
    [should_take_action |-> ShouldAct(llm_analysis, agent.min_confidence),
     method |-> "llm_analysis",
     confidence |-> llm_analysis.confidence_score,
     suggested_action |-> llm_analysis.suggested_action]

\* The analysis from the answer of the model API on: a 429 sleeps 60 s inside
\* _call_llm_api, which then calls itself; any other answer ends in a saved
\* LLMAnalysis row and a result tagged llm_analysis.
AfterLLMCall(agent, article, outcome) ==
    IF outcome.status = 429
    THEN /\ llm_wait' = [pending |-> TRUE, agent |-> agent, article |-> article]
         /\ result' = NoResult
         /\ UNCHANGED db_llm_analyses
    ELSE LET llm_analysis == analyze_article_relevance(ArticleText(article.url),
                                                       SplitKeywords(agent.keywords),
                                                       outcome)
         IN /\ Len(db_llm_analyses) < MaxAnalyses
            /\ db_llm_analyses' = Append(db_llm_analyses, LLMAnalysisRow(agent, llm_analysis))
            /\ llm_wait' = NoCall
            /\ result' = [op |-> "decide", exc |-> "none",
                          analysis |-> LLMDecision(agent, llm_analysis)]

\* analyze_article_with_intelligence(agent, article), the model API answering
\* with outcome when it is asked.
analyze_article_with_intelligence(agent, article, outcome) ==
    /\ ~llm_wait.pending
    /\ UNCHANGED <<rate_vars, running_agents, agent_tasks, tasks, calls, db_agents, db_articles,
                   ret, stop_returned, observed>>
    /\ IF agent.llm_enabled
       THEN AfterLLMCall(agent, article, outcome)
       ELSE LET decided == KeywordAnalysis(ArticleText(article.url),
                                           SplitKeywords(agent.keywords))
            IN /\ result' = [op |-> "decide", exc |-> decided.exc,
                             analysis |-> decided.analysis]
               /\ UNCHANGED <<db_llm_analyses, llm_wait>>

\* The sleep after a 429 of the model API is over: _call_llm_api calls itself.
llm_retry(outcome) ==
    /\ llm_wait.pending
    /\ UNCHANGED <<rate_vars, running_agents, agent_tasks, tasks, calls, db_agents, db_articles,
                   ret, stop_returned, observed>>
    /\ AfterLLMCall(llm_wait.agent, llm_wait.article, outcome)

\* ------------------------------------------------- the pure functions, called
KeywordLists == {<<>>, <<"">>, <<"ai">>, <<"AI">>, <<"gpu">>, <<"ai", "chip">>,
                 <<"AI", " chip">>, <<"ai", "ai">>, <<"chip", "gpu">>,
                 <<"ai", "chip", "gpu">>, <<"chip", "ai", "AI">>, <<"gpu", "Chip", "">>}

Texts == {ArticleText(u) : u \in Urls}
         \cup {[title |-> {}, description |-> {}, content |-> {}],
               [title |-> {}, description |-> {"chip"}, content |-> {"ai"}],
               [title |-> {"ai", "chip"}, description |-> {}, content |-> {}],
               [title |-> {}, description |-> {"ai", "chip", "gpu"}, content |-> {}],
               [title |-> {"gpu"}, description |-> {}, content |-> {"ai", "chip"}],
               [title |-> {"ai"}, description |-> {"ai", "chip"},
                content |-> {"ai", "chip", "gpu"}]}

\* news_service.analyze_keywords_match(article, keywords), called directly.
keywords_match(article, keywords) ==
    /\ ~llm_wait.pending
    /\ result' = [op |-> "score", exc |-> analyze_keywords_match(article, keywords).exc,
                  article |-> article, keywords |-> keywords,
                  matched_score |-> analyze_keywords_match(article, keywords).matched_score]
    /\ UNCHANGED <<rate_vars, running_agents, agent_tasks, tasks, calls, db_agents, db_articles,
                   ret, stop_returned, observed, db_llm_analyses, llm_wait>>

\* llm_service._parse_llm_response(llm_response), called directly.
parse_llm_response(body) ==
    /\ ~llm_wait.pending
    /\ result' = [op |-> "parse", exc |-> "none", body |-> body,
                  analysis |-> ParseLLMResponse(body)]
    /\ UNCHANGED <<rate_vars, running_agents, agent_tasks, tasks, calls, db_agents, db_articles,
                   ret, stop_returned, observed, db_llm_analyses, llm_wait>>

\* The raw articles the quality filter is called with.
RawArticles == [title : {"absent", "removed", "Chip news"},
                url : {"absent", "u1"},
                description : {Absent, None, 0, MinDescriptionLen - 1, MinDescriptionLen,
                               MinDescriptionLen + 1}]

\* news_service.filter_quality_articles([article]), called directly.
quality_filter(article) ==
    /\ ~llm_wait.pending
    /\ result' = LET o == QualityOutcome(article.title, article.url, article.description)
                 IN [op |-> "filter", article |-> article,
                     exc |-> IF o = "TypeError" THEN o ELSE "none",
                     kept |-> IF o = "kept" THEN <<article>> ELSE <<>>]
    /\ UNCHANGED <<rate_vars, running_agents, agent_tasks, tasks, calls, db_agents, db_articles,
                   ret, stop_returned, observed, db_llm_analyses, llm_wait>>

\* The publishedAt values the recency test is called with.
Timestamps == [kind : {"absent", "garbage"}, age : {0}]
              \cup [kind : {"naive", "aware"},
                    age : {-100, 0, MaxAgeHours * 100 - 1, MaxAgeHours * 100,
                           MaxAgeHours * 100 + 1, 2 * MaxAgeHours * 100}]

\* news_service.is_article_recent(article), called directly.
article_recent(publishedAt) ==
    /\ ~llm_wait.pending
    /\ result' = [op |-> "recent", exc |-> "none", publishedAt |-> publishedAt,
                  recent |-> is_article_recent([publishedAt |-> publishedAt])]
    /\ UNCHANGED <<rate_vars, running_agents, agent_tasks, tasks, calls, db_agents, db_articles,
                   ret, stop_returned, observed, db_llm_analyses, llm_wait>>

\* --------------------------------------------- services and their limiters
\* `async with NewsService() as news_service` of execute_monitoring_cycle and
\* `async with LLMService() as llm_service` of
\* analyze_article_with_intelligence: every cycle and every analysis construct
\* their own object, with last_req_time = 0.
new_service(p) ==
    /\ Len(limiters) < MaxServices
    /\ limiters' = Append(limiters, [provider |-> p, rate_limit_delay |-> Delay(p),
                                     last_req_time |-> 0, pc |-> "idle", wake |-> 0])
    /\ UNCHANGED <<running_agents, agent_tasks, tasks, calls, db_agents, db_articles,
                   ret, stop_returned, observed, engine_vars, now, last_call>>

\* time_since_last < self.rate_limit_delay
NeedsSleep(l) == now - l.last_req_time < l.rate_limit_delay

\* __rate_limit_check__ up to its sleep, at the head of fetch_everything_news
\* or analyze_article_relevance; with no sleep it sets last_req_time and the
\* request follows at once.
rate_limit_check(i) ==
    /\ i \in DOMAIN limiters
    /\ limiters[i].pc = "idle"
    /\ IF NeedsSleep(limiters[i])
       THEN /\ limiters' = [limiters EXCEPT ![i].pc = "sleeping",
                                            ![i].wake = limiters[i].last_req_time
                                                          + limiters[i].rate_limit_delay]
            /\ UNCHANGED last_call
       ELSE /\ limiters' = [limiters EXCEPT ![i].last_req_time = now]
            /\ last_call' = [last_call EXCEPT ![limiters[i].provider] = now]
    /\ UNCHANGED <<running_agents, agent_tasks, tasks, calls, db_agents, db_articles,
                   ret, stop_returned, observed, engine_vars, now>>

\* The sleep of __rate_limit_check__ is over: last_req_time is set and the
\* request follows.
rate_limit_wake(i) ==
    /\ i \in DOMAIN limiters
    /\ limiters[i].pc = "sleeping"
    /\ now >= limiters[i].wake
    /\ limiters' = [limiters EXCEPT ![i].pc = "idle", ![i].last_req_time = now]
    /\ last_call' = [last_call EXCEPT ![limiters[i].provider] = now]
    /\ UNCHANGED <<running_agents, agent_tasks, tasks, calls, db_agents, db_articles,
                   ret, stop_returned, observed, engine_vars, now>>

\* One second passes.
tick ==
    /\ now < MaxTime
    /\ now' = now + 1
    /\ UNCHANGED <<running_agents, agent_tasks, tasks, calls, db_agents, db_articles,
                   ret, stop_returned, observed, engine_vars, limiters, last_call>>

NextRate ==
    \/ \E p \in Providers : new_service(p)
    \/ \E i \in 1..MaxServices : rate_limit_check(i)
    \/ \E i \in 1..MaxServices : rate_limit_wake(i)
    \/ tick

\* The services' limiters alone, under a clock.
SpecRate == Init /\ [][NextRate]_vars

NextEngine ==
    \/ \E agent \in EngineAgents, article \in EngineArticles, outcome \in LLMOutcomes :
           analyze_article_with_intelligence(agent, article, outcome)
    \/ \E outcome \in LLMOutcomes : llm_retry(outcome)

\* The analysis engine alone, called directly.
SpecEngine == Init /\ [][NextEngine]_vars

NextFunctions ==
    \/ \E article \in Texts, keywords \in KeywordLists : keywords_match(article, keywords)
    \/ \E body \in LLMBodies : parse_llm_response(body)
    \/ \E article \in RawArticles : quality_filter(article)
    \/ \E publishedAt \in Timestamps : article_recent(publishedAt)

\* The scorer and the two filters of news_service and the parser of
\* llm_service alone.
SpecFunctions == Init /\ [][NextFunctions]_vars

\* ================================================================ claims
InCycle(t) == tasks[t].pc \in {"fetching", "rate_wait"} /\ ~tasks[t].cancel

RowsWithUrl(u) == {r \in db_articles : r.url = u}

\* The article behind url u scores above one half for the keywords ai, chip.
WorthActing(u) ==
    analyze_keywords_match(ArticleText(u), <<"ai", "chip">>).matched_score > ActThreshold

\* C1: after any sequence of start calls for one agent id, at most one
\* monitoring loop is active for that id (a start for an agent already marked
\* running spawns no additional loop).
C1_IdempotentStart == \A a \in AgentIds : Cardinality(ActiveTasks(a)) <= 1

\* C2: a start for an agent id with no entry in the running set raises nothing
\* and leaves the agent marked running with exactly one new loop, whose handle
\* is the one recorded in the task table.
C2_StartFresh ==
    [][\A a \in AgentIds :
          (a \notin DOMAIN running_agents /\ start_agent_monitoring(a))
          => /\ ret' = "none"
             /\ a \in DOMAIN running_agents' /\ running_agents'[a]
             /\ Cardinality(DOMAIN tasks') = Cardinality(DOMAIN tasks) + 1
             /\ a \in DOMAIN agent_tasks'
             /\ agent_tasks'[a] \in (DOMAIN tasks') \ (DOMAIN tasks)]_vars

\* C3: once stop has returned for an agent, and until a later start, no
\* monitoring cycle of that agent is executing.
C3_NoCycleAfterStop ==
    \A a \in stop_returned : \A t \in ActiveTasks(a) : ~InCycle(t)

\* C4: once stop has returned for an agent, and until a later start, the
\* scheduler holds neither a running-flag entry nor a task-handle entry for it.
C4_StopClearsBookkeeping ==
    \A a \in stop_returned : a \notin DOMAIN running_agents /\ a \notin DOMAIN agent_tasks

\* C5: a stop for an agent with no running loop leaves the running set and the
\* task table as they were and raises nothing.
C5_StopNoLoopIsNoOp ==
    [][\A a \in AgentIds :
          (ActiveTasks(a) = {} /\ stop_agent_monitoring(a))
          => /\ running_agents' = running_agents
             /\ agent_tasks' = agent_tasks
             /\ ret' = "none"]_vars

\* C6: a cycle that begins runs with the keywords stored at that moment, and a
\* sleep that begins lasts the check interval stored at that moment: no value
\* from before an update is used by a cycle or sleep that starts after it.
C6_FreshConfig ==
    [][\A t \in DOMAIN tasks' :
          LET a == tasks'[t].agent
              before == IF t \in DOMAIN tasks THEN tasks[t].pc ELSE "none"
          IN /\ (tasks'[t].pc = "fetching" /\ before \in {"new", "sleeping", "backoff"})
                => (a \in DOMAIN db_agents' /\ tasks'[t].kw = db_agents'[a].keywords)
             /\ (tasks'[t].pc = "sleeping" /\ before # "sleeping")
                => (a \in DOMAIN db_agents' /\ tasks'[t].dur = db_agents'[a].check_interval)]_vars

\* A loop sleeps the edited interval, twice the default, that update_agent stored.
C6_Witness ==
    \E t \in DOMAIN tasks :
        /\ tasks[t].pc = "sleeping"
        /\ tasks[t].dur = 2 * DefaultCheckInterval
        /\ db_agents[tasks[t].agent].check_interval = 2 * DefaultCheckInterval

C8_NotFoundReleases ==
    [][\A t \in DOMAIN tasks :
          LET a == tasks[t].agent IN
          (tasks[t].pc # "done" /\ tasks'[t].pc = "done" /\ tasks'[t].exit = "notfound")
          => /\ a \notin DOMAIN running_agents'
             /\ a \notin DOMAIN agent_tasks'
             /\ ~DictGet(running_agents', a, FALSE)]_vars

\* C9: once two cycles have handed the same url, of an article worth acting on,
\* to the dedup check, exactly one article row has that url; and no two rows
\* ever share a url.
C9_Dedup ==
    /\ \A u \in Urls : (observed[u] >= 2 /\ WorthActing(u))
                       => Cardinality(RowsWithUrl(u)) = 1
    /\ \A u \in Urls : Cardinality(RowsWithUrl(u)) <= 1

\* C10: a save that hits the url uniqueness constraint is taken as "already
\* processed": no exception leaves execute_intelligent_action, so the cycle's
\* for loop would go on to its next article.
C10_ConflictIsBenign ==
    [][\A a \in AgentIds, article \in Articles, analysis \in Analyses :
          (SaveConflicts(db_articles, article.url)
             /\ execute_intelligent_action(a, article, analysis))
          => ret' = "none"]_vars

\* C11: in a cycle, an article that passed the quality and recency filters is
\* skipped exactly when an article row with its url is stored; one whose url is
\* not stored is handed to analyze_article_with_intelligence.
C11_DedupSkip ==
    [][\A t \in DOMAIN tasks, resp \in Responses :
          (resp.status = 200 /\ fetch_return(t, resp))
          => LET cycle == execute_monitoring_cycle(tasks[t].agent, resp.articles)
             IN \A u \in ObservedUrls(resp.articles) :
                    (u \in cycle.analyzed) <=> (RowsWithUrl(u) = {})]_vars

\* C12: for an agent with llm_enabled, a model API whose call fails (network
\* error, timeout, a status that is not 200) makes the analysis return, without
\* raising, the keyword-scoring result tagged as the fallback method.
C12_FallbackTrigger ==
    [][\A agent \in EngineAgents, article \in EngineArticles, outcome \in LLMOutcomes :
          (agent.llm_enabled /\ outcome.status # 200
             /\ analyze_article_with_intelligence(agent, article, outcome))
          => /\ result'.op = "decide"
             /\ result'.exc = "none"
             /\ result'.analysis.method = "fall_back analysis"
             /\ result'.analysis.confidence =
                    analyze_keywords_match(ArticleText(article.url),
                                           SplitKeywords(agent.keywords)).matched_score]_vars

\* C13: a 200 response that cannot be parsed, or lacks a required field, is
\* resolved by the keyword scoring: the analysis returns its result tagged as
\* the fallback method, not one tagged llm_analysis.
C13_ValidationFallback ==
    [][\A agent \in EngineAgents, article \in EngineArticles, outcome \in LLMOutcomes :
          (agent.llm_enabled /\ outcome.status = 200 /\ outcome.body.kind # "json"
             /\ analyze_article_with_intelligence(agent, article, outcome))
          => /\ result'.exc = "none"
             /\ result'.analysis.method = "fall_back analysis"
             /\ result'.analysis.confidence =
                    analyze_keywords_match(ArticleText(article.url),
                                           SplitKeywords(agent.keywords)).matched_score]_vars

\* C14: the parser turns a confidence_score of 85 into 0.85, of 1.4 into 1.0 and
\* of -0.2 into 0.0, and whatever it is given the confidence it returns lies in
\* [0, 1].
C14_ConfidenceNormalization ==
    [][\A body \in LLMBodies :
          (body.kind = "json" /\ parse_llm_response(body))
          => LET c == body.confidence_score
                 r == result'.analysis.confidence_score
             IN /\ 0 <= r /\ r <= One
                /\ (c = 85 * One) => (r = 85 * (One \div 100))
                /\ (c = 14 * (One \div 10)) => (r = One)
                /\ (c = -2 * (One \div 10)) => (r = 0)]_vars

C16_ActionCoercion ==
    [][\A agent \in EngineAgents, article \in EngineArticles, outcome \in LLMOutcomes :
          (agent.llm_enabled /\ outcome.status = 200 /\ outcome.body.kind = "json"
             /\ analyze_article_with_intelligence(agent, article, outcome))
          => result'.analysis.suggested_action
             = IF outcome.body.suggested_action
                    \in {"save_important", "notify_user", "track_trend", "ignore"}
               THEN outcome.body.suggested_action ELSE "ignore"]_vars

\* C17: for an agent with llm_enabled false the analysis asks the model API
\* nothing and returns the keyword result: tagged as the fallback method, the
\* matched score as confidence, acting exactly when the score is above one
\* half whatever min_confidence is, save_important when acting and ignore
\* otherwise.
C17_HeuristicOnly ==
    [][\A agent \in EngineAgents, article \in EngineArticles, outcome \in LLMOutcomes :
          (~agent.llm_enabled /\ analyze_article_with_intelligence(agent, article, outcome))
          => LET score == analyze_keywords_match(ArticleText(article.url),
                                                 SplitKeywords(agent.keywords)).matched_score
             IN /\ UNCHANGED <<db_llm_analyses, llm_wait>>
                /\ result'.exc = "none"
                /\ result'.analysis.method = "fall_back analysis"
                /\ result'.analysis.confidence = score
                /\ result'.analysis.should_take_action = (score > ActThreshold)
                /\ result'.analysis.suggested_action
                   = IF score > ActThreshold THEN "save_important" ELSE "ignore"]_vars

\* C18: for a list of at least one keyword the score is the weighted count
\* (1.0 per keyword first found in the title, 0.7 in the description, 0.3 in
\* the content) divided by the number of keywords and capped at 1.0, always in
\* [0, 1]; keywords ai, chip with ai in the title and chip in the description
\* score 0.85, above the threshold of acting.
C18_KeywordScore ==
    [][\A article \in Texts, keywords \in KeywordLists :
          (Len(keywords) > 0 /\ keywords_match(article, keywords))
          => /\ result'.exc = "none"
             /\ 0 <= result'.matched_score /\ result'.matched_score <= One
             /\ result'.matched_score * Len(keywords)
                = Min(WeightedScore(article, keywords), Len(keywords) * One)
             /\ (article = ArticleText("u1") /\ keywords = <<"ai", "chip">>)
                => (result'.matched_score = 85 * (One \div 100)
                      /\ result'.matched_score > ActThreshold)]_vars

\* C19: with the empty keyword list the scoring raises nothing and gives the
\* score 0, which is not above the threshold of acting.
C19_EmptyKeywords ==
    [][\A article \in Texts :
          keywords_match(article, <<>>)
          => /\ result'.exc = "none"
             /\ result'.matched_score = 0
             /\ ~(result'.matched_score > ActThreshold)]_vars

\* C20: the dispatch runs the handler its analysis names in suggested_action:
\* the notification for notify_user, the trend tracking for track_trend, for
\* save_important the bump of the stored row's relevance_score by 20 capped at
\* 100, and no handler for ignore.
C20_Dispatch ==
    [][\A a \in AgentIds, article \in Articles, analysis \in Analyses :
          (~SaveConflicts(db_articles, article.url)
             /\ execute_intelligent_action(a, article, analysis))
          => LET base == IntTimes100(analysis.confidence)
                 bumped == IF base + 20 > 100 THEN 100 ELSE base + 20
             IN /\ result'.handler = IF analysis.suggested_action = "ignore" THEN "none"
                                     ELSE analysis.suggested_action
                /\ \E r \in db_articles' \ db_articles :
                       /\ r.url = article.url
                       /\ r.relevance_score = IF analysis.suggested_action = "save_important"
                                              THEN bumped ELSE base]_vars

\* C21: an article stored after a decision of confidence c has relevance_score
\* c * 100, an integer in 0..100; a keyword decision with save_important and
\* confidence 0.85 ends with the stored relevance_score 85.
C21_RelevanceScore ==
    [][\A a \in AgentIds, article \in Articles, analysis \in Analyses :
          (~SaveConflicts(db_articles, article.url)
             /\ execute_intelligent_action(a, article, analysis))
          => \E r \in db_articles' \ db_articles :
                 /\ r.url = article.url
                 /\ r.relevance_score \in 0..100
                 /\ r.relevance_score * One = analysis.confidence * 100]_vars

\* C22: the quality filter never raises, and drops an article exactly when its
\* title or url is absent, its title is the 'removed' sentinel, or its
\* description is absent, null or shorter than 30 characters (29 dropped, 30 kept).
C22_QualityFilter ==
    [][\A article \in RawArticles :
          quality_filter(article)
          => /\ result'.exc = "none"
             /\ (result'.kept = <<>>)
                  <=> \/ article.title = "absent"
                      \/ article.url = "absent"
                      \/ article.title = "removed"
                      \/ article.description \in {Absent, None}
                      \/ article.description < MinDescriptionLen]_vars

C24_RateLimit ==
    [][\A i \in 1..MaxServices :
          ((rate_limit_check(i) /\ ~NeedsSleep(limiters[i])) \/ rate_limit_wake(i))
          => LET p == limiters[i].provider
             IN last_call[p] # None => now - last_call[p] >= Delay(p)]_vars

\* Task t is inside fetch_everything_news.
InFetch(t) == t \in DOMAIN tasks /\ tasks[t].pc \in {"fetching", "rate_wait"}

\* C25: a fetch that keeps being answered 429 ends after a bounded number of
\* waits: a task inside fetch_everything_news (in the request, or in the sleep
\* after a 429) eventually leaves it.
C25_BoundedRetry == \A t \in TaskIds : InFetch(t) ~> ~InFetch(t)

\* C26: a 401 from the search provider aborts the cycle as a cycle error: the
\* loop goes to its 60 s error backoff, not to the sleep of check_interval.
C26_AuthFailureSurfaced ==
    [][\A t \in TaskIds, resp \in Responses :
          (fetch_return(t, resp) /\ resp.status = 401)
          => /\ tasks'[t].pc = "backoff"
             /\ tasks'[t].dur = ErrorBackoff
             /\ tasks'[t].err]_vars

\* C27: when a cycle of an agent has completed, the agent's row carries a
\* last_checked timestamp.
C27_LastChecked ==
    [][\A t \in TaskIds, resp \in Responses :
          (fetch_return(t, resp) /\ tasks'[t].pc = "sleeping")
          => /\ tasks[t].agent \in DOMAIN db_agents'
             /\ db_agents'[tasks[t].agent].last_checked # None]_vars

\* C28: an LLMAnalysis row is stored only for a decision in which the model
\* API returned an answer: none when llm_enabled is false, none when the call
\* to the API failed and the keyword analysis was used in its place.
C28_AnalysisRecordOnlyForJudgment ==
    [][\A outcome \in LLMOutcomes :
          ((\E agent \in EngineAgents, article \in EngineArticles :
                /\ analyze_article_with_intelligence(agent, article, outcome)
                /\ (~agent.llm_enabled \/ outcome.status # 200))
             \/ (llm_retry(outcome) /\ outcome.status # 200))
          => db_llm_analyses' = db_llm_analyses]_vars

\* C29: in every reachable state at most one task of an agent id is inside a
\* monitoring cycle.
C29_SequentialCycles ==
    \A a \in AgentIds :
        Cardinality({t \in DOMAIN tasks : tasks[t].agent = a /\ InCycle(t)}) <= 1

\* C30: when update_agent has set is_active to false and returned, no loop of
\* the agent is left running; and a loop enters a cycle only for an agent whose
\* row is active.
C30_InactiveStopsLoop ==
    [][/\ \A a \in AgentIds, data \in AgentRows :
             (update_agent(a, data) /\ a \in DOMAIN db_agents /\ ~data.is_active)
             => {t \in DOMAIN tasks' : tasks'[t].agent = a /\ tasks'[t].pc # "done"} = {}
       /\ \A t \in TaskIds, ok \in BOOLEAN :
             (loop_activate(t, ok) /\ tasks'[t].pc = "fetching")
             => db_agents[tasks[t].agent].is_active]_vars

\* Every active loop of agent a is the one whose handle is recorded for a.
HandlesConsistent(at, ts, a) ==
    \A u \in DOMAIN ts : (ts[u].agent = a /\ ts[u].pc # "done")
                         => (a \in DOMAIN at /\ at[a] = u)

\* C31: bookkeeping stays consistent when a stop that waited for the loop it
\* cancelled runs again: it does not fail on an entry that is already gone, it
\* does not remove the handle of a loop started meanwhile, and if every active
\* loop was the recorded one before, every active loop is the recorded one after.
C31_ConsistentBookkeeping ==
    [][\A a \in AgentIds, t \in TaskIds :
          resume_after_await("stop", a, t)
          => /\ ret' = "none"
             /\ (a \in DOMAIN agent_tasks /\ agent_tasks[a] # t)
                  => (a \in DOMAIN agent_tasks' /\ agent_tasks'[a] = agent_tasks[a])
             /\ HandlesConsistent(agent_tasks, tasks, a)
                  => HandlesConsistent(agent_tasks', tasks', a)]_vars

====
